---- MODULE Spec2Model ----
(***************************************************************************)
(* Model of fits_to_xisf_batch.py: the tree enumeration of main(), the     *)
(* process pool running convert_fits_to_xisf, and the result loop with the *)
(* deletion of converted originals.                                        *)
(*                                                                         *)
(* A file name is a tuple of characters, a directory is its path relative  *)
(* to input_dir ("." or "sub"), a file is [dir, name].  The input tree and *)
(* the output tree are separate trees.  The program is run twice in a row  *)
(* (run = 1, then run = 2) on the filesystem the first run left behind.    *)
(***************************************************************************)
EXTENDS Integers, Sequences, FiniteSets, TLC

\* ---------------------------------------------------------------- bounds
\* most files in the input tree
MaxFiles == 2
\* largest age of a file, in clock ticks
MaxAge == 2
\* clock ticks per day (24 * 3600 seconds in the source)
TicksPerDay == 2
\* largest delete_older_than_days of a configuration
MaxDays == 1
\* largest workers of a configuration
MaxWorkers == 2
\* most axes of the data of a FITS file
MaxNdim == 4
\* largest length of an axis
MaxLen == 2

\* ------------------------------------------------------------ file names
A_FITS == <<"a", ".", "f", "i", "t", "s">>
A_FITS_UPPER == <<"a", ".", "F", "I", "T", "S">>
A_XISF == <<"a", ".", "x", "i", "s", "f">>

Names == {A_FITS, A_FITS_UPPER, A_XISF}
Dirs == {".", "sub"}
\* the files an input tree is made of: three names that meet in input_dir
\* itself, one FITS file in the subdirectory
AllFiles == [dir : {"."}, name : Names] \cup {[dir |-> "sub", name |-> A_FITS]}

\* str.lower() on one character
LowerChar(c) ==
    CASE c = "F" -> "f"
      [] c = "I" -> "i"
      [] c = "T" -> "t"
      [] c = "S" -> "s"
      [] c = "X" -> "x"
      [] c = "A" -> "a"
      [] OTHER -> c

\* str.lower()
Lower(s) == [i \in 1..Len(s) |-> LowerChar(s[i])]

\* str.endswith(suffix)
EndsWith(s, suffix) ==
    /\ Len(s) >= Len(suffix)
    /\ SubSeq(s, Len(s) - Len(suffix) + 1, Len(s)) = suffix

DOT_FITS == <<".", "f", "i", "t", "s">>
DOT_XISF == <<".", "x", "i", "s", "f">>

\* a test of the suffix that leaves out lower()
IsFitsCaseSensitive(fn) == EndsWith(fn, DOT_FITS)

\* fn.lower().endswith(".fits")
IsFits(fn) == EndsWith(Lower(fn), DOT_FITS)

\* position of the last "." of s, 0 when there is none (str.rfind)
LastDot(s) ==
    LET dots == {i \in 1..Len(s) : s[i] = "."}
    IN  IF dots = {} THEN 0 ELSE CHOOSE i \in dots : \A j \in dots : j <= i

\* os.path.splitext(fn)[0]: the name up to its last dot; leading dots of
\* the name do not start an extension
SplitextRoot(fn) ==
    LET d == LastDot(fn)
    IN  IF d > 0 /\ \E i \in 1..(d - 1) : fn[i] # "."
        THEN SubSeq(fn, 1, d - 1)
        ELSE fn

\* dst = os.path.splitext(os.path.join(dest_root, fn))[0] + ".xisf"
Dst(src) == [dir |-> src.dir, name |-> SplitextRoot(src.name) \o DOT_XISF]

\* ----------------------------------------------------------------- state
VARIABLES
    input_is_dir,            \* os.path.isdir(input_dir)
    skip_existing,           \* config skip_existing
    delete_older_than_days,  \* config delete_older_than_days
    workers,                 \* config workers
    inDirs,                  \* directories of the input tree
    inFiles,                 \* files of the input tree
    outDirs,                 \* directories of the output tree
    outFiles,                \* output path -> content, for the files there
    run,                     \* 1 or 2: which run of the program this is
    pc,                      \* where main() is
    walkTodo,                \* directories os.walk has not yielded yet
    root,                    \* directory of the current os.walk iteration
    files,                   \* names of that directory not yet looped over
    fits_tasks,              \* list of (src, dst)
    futures,                 \* task index -> state of its future
    collected,               \* task indexes the as_completed loop has handled
    starts,                  \* task index -> times a worker started it
    nOk,                     \* task index -> number of [ok] reports printed
    nFail,                   \* task index -> number of [failed] reports
    cur,                     \* task index of the loop's src, dst; 0 before
    file_age,                \* age read in that iteration, NoAge if none
    notices,                 \* other lines printed: [kind, src]
    processed,               \* files the walk loop has handled in this run
    first,                   \* outFiles as the first run left it, in run 2
    c_pc,                    \* where one call of convert_fits_to_xisf is
    shape,                   \* data.shape as fits.getdata returns it
    data,                    \* data.shape after line 24
    written,                 \* the XISF.write calls made: [data, meta]
    raised                   \* the texts of the exceptions raised in the call

cfgVars == <<input_is_dir, skip_existing, delete_older_than_days, workers>>
fsVars == <<inDirs, inFiles, outDirs, outFiles>>
walkVars == <<walkTodo, root, files, processed>>
poolVars == <<futures, collected, starts, nOk, nFail, cur, file_age>>
callVars == <<c_pc, shape, data, written, raised>>
mainVars == <<cfgVars, fsVars, run, pc, walkVars, fits_tasks, poolVars, notices, first>>
vars == <<mainVars, callVars>>

NoAge == -1
NoDir == "none"
NoFirst == "none"

Tasks == 1..Len(fits_tasks)
Finished == {"ok", "ok_nometa", "failed"}
Succeeded == {"ok", "ok_nometa"}

\* content of an output file
Copied(src) == [kind |-> "copy", src |-> src, meta |-> FALSE]
Converted(src, meta) == [kind |-> "xisf", src |-> src, meta |-> meta]

\* outFiles with the file at path p (over)written with content c
WriteFile(p, c) ==
    [q \in (DOMAIN outFiles) \cup {p} |-> IF q = p THEN c ELSE outFiles[q]]

\* os.path.exists(dst)
Exists(p) == p \in DOMAIN outFiles

Init ==
    /\ input_is_dir \in BOOLEAN
    /\ skip_existing \in BOOLEAN
    /\ delete_older_than_days \in (-2)..MaxDays
    /\ workers \in 0..MaxWorkers
    /\ inDirs \in {{"."}, {".", "sub"}}
    /\ inFiles \in {fs \in SUBSET AllFiles :
                      /\ Cardinality(fs) <= MaxFiles
                      /\ \A f \in fs : f.dir \in inDirs}
    /\ outDirs = {}
    /\ outFiles = <<>>
    /\ run = 1
    /\ pc = "start"
    /\ walkTodo = {}
    /\ root = NoDir
    /\ files = {}
    /\ fits_tasks = <<>>
    /\ futures = <<>>
    /\ collected = {}
    /\ starts = <<>>
    /\ nOk = <<>>
    /\ nFail = <<>>
    /\ cur = 0
    /\ file_age = NoAge
    /\ notices = {}
    /\ processed = {}
    /\ first = NoFirst
    /\ c_pc = "idle"
    /\ shape = <<>>
    /\ data = <<>>
    /\ written = <<>>
    /\ raised = <<>>

\* ------------------------------------------------------------ enumeration
\* the names os.walk lists for directory d
Listing(d) == {f.name : f \in {g \in inFiles : g.dir = d}}

\* os.walk is top-down: input_dir itself is yielded before its subdirectories
MayVisit(d) == d \in walkTodo /\ (d = "." \/ "." \notin walkTodo)

\* a main() that makes output_dir before it looks at input_dir
ConfigErrorAfterMakedirs ==
    /\ pc = "start"
    /\ ~input_is_dir
    /\ outDirs' = outDirs \cup {"."}
    /\ pc' = "exit1"
    /\ UNCHANGED <<callVars, cfgVars, inDirs, inFiles, outFiles, run, walkVars, fits_tasks,
                   poolVars, notices, first>>

\* lines 74-76: input_dir is not a folder, sys.exit(1)
ConfigError ==
    /\ pc = "start"
    /\ ~input_is_dir
    /\ pc' = "exit1"
    /\ UNCHANGED <<callVars, cfgVars, fsVars, run, walkVars, fits_tasks, poolVars, notices, first>>

\* line 77: os.makedirs(output_dir, exist_ok=True)
MakeOutputDir ==
    /\ pc = "start"
    /\ input_is_dir
    /\ outDirs' = outDirs \cup {"."}
    /\ walkTodo' = inDirs
    /\ pc' = "walk"
    /\ UNCHANGED <<callVars, cfgVars, inDirs, inFiles, outFiles, run, root, files, processed,
                   fits_tasks, poolVars, notices, first>>

\* line 77 raising OSError: nothing catches it
MakeOutputDirFails ==
    /\ pc = "start"
    /\ input_is_dir
    /\ "." \notin outDirs
    /\ pc' = "crashed"
    /\ UNCHANGED <<callVars, cfgVars, fsVars, run, walkVars, fits_tasks, poolVars, notices, first>>

\* a walk that makes the mirror only of a directory that holds files
MakedirsIfFiles(d) == IF Listing(d) = {} THEN outDirs ELSE outDirs \cup {d}

\* line 85: os.makedirs(dest_root, exist_ok=True)
Makedirs(d) == outDirs \cup {d}

\* lines 82-85: the next directory of os.walk, and its mirror is made
WalkDir(d) ==
    /\ pc = "walk"
    /\ MayVisit(d)
    /\ outDirs' = Makedirs(d)
    /\ walkTodo' = walkTodo \ {d}
    /\ root' = d
    /\ files' = Listing(d)
    /\ pc' = IF Listing(d) = {} THEN "walk" ELSE "files"
    /\ UNCHANGED <<callVars, cfgVars, inDirs, inFiles, outFiles, run, processed, fits_tasks,
                   poolVars, notices, first>>

\* line 85 raising OSError: nothing catches it
WalkDirFails(d) ==
    /\ pc = "walk"
    /\ MayVisit(d)
    /\ d \notin outDirs
    /\ pc' = "crashed"
    /\ UNCHANGED <<callVars, cfgVars, fsVars, run, walkVars, fits_tasks, poolVars, notices, first>>

\* the loop over files moves on from fn
AfterFile(fn) ==
    /\ files' = files \ {fn}
    /\ processed' = processed \cup {[dir |-> root, name |-> fn]}
    /\ pc' = IF files = {fn} THEN "walk" ELSE "files"
    /\ UNCHANGED <<walkTodo, root>>

\* a skip test with the flag inverted
SkipsExistingInverted(dst) == Exists(dst) /\ ~skip_existing

\* line 92: os.path.exists(dst) and skip_existing
SkipsExisting(dst) == Exists(dst) /\ skip_existing

\* lines 89-94: a FITS file whose XISF exists is skipped
SkipFile(fn) ==
    LET src == [dir |-> root, name |-> fn]
    IN  /\ pc = "files"
        /\ fn \in files
        /\ IsFits(fn)
        /\ SkipsExisting(Dst(src))
        /\ notices' = notices \cup {[kind |-> "skip", src |-> src]}
        /\ AfterFile(fn)
        /\ UNCHANGED <<callVars, cfgVars, fsVars, run, fits_tasks, poolVars, first>>

\* lines 89-95: a FITS file becomes a task
EnqueueFile(fn) ==
    LET src == [dir |-> root, name |-> fn]
    IN  /\ pc = "files"
        /\ fn \in files
        /\ IsFits(fn)
        /\ ~SkipsExisting(Dst(src))
        /\ fits_tasks' = Append(fits_tasks, [src |-> src, dst |-> Dst(src)])
        /\ AfterFile(fn)
        /\ UNCHANGED <<callVars, cfgVars, fsVars, run, poolVars, notices, first>>

\* lines 96-98: shutil.copy2 of everything else
CopyFile(fn) ==
    LET src == [dir |-> root, name |-> fn]
    IN  /\ pc = "files"
        /\ fn \in files
        /\ ~IsFits(fn)
        /\ outFiles' = WriteFile(src, Copied(src))
        /\ AfterFile(fn)
        /\ UNCHANGED <<callVars, cfgVars, inDirs, inFiles, outDirs, run, fits_tasks, poolVars,
                       notices, first>>

\* line 98 raising OSError: nothing catches it
CopyFileFails(fn) ==
    /\ pc = "files"
    /\ fn \in files
    /\ ~IsFits(fn)
    /\ pc' = "crashed"
    /\ UNCHANGED <<callVars, cfgVars, fsVars, run, walkVars, fits_tasks, poolVars, notices, first>>

\* ------------------------------------------------------------------ pool
\* line 105: ProcessPoolExecutor(max_workers) raises ValueError below 1
PoolStarts(w) == w >= 1

\* a pool started inside the loop of os.walk, before its last directory
StartPoolEarly ==
    /\ pc = "walk"
    /\ PoolStarts(workers)
    /\ futures' = [t \in Tasks |-> "queued"]
    /\ collected' = {}
    /\ starts' = [t \in Tasks |-> 0]
    /\ nOk' = [t \in Tasks |-> 0]
    /\ nFail' = [t \in Tasks |-> 0]
    /\ cur' = 0
    /\ file_age' = NoAge
    /\ pc' = "collect"
    /\ UNCHANGED <<callVars, cfgVars, fsVars, run, walkVars, fits_tasks, notices, first>>

\* lines 105-106: the pool is made and every task submitted
StartPool ==
    /\ pc = "walk"
    /\ walkTodo = {}
    /\ PoolStarts(workers)
    /\ futures' = [t \in Tasks |-> "queued"]
    /\ collected' = {}
    /\ starts' = [t \in Tasks |-> 0]
    /\ nOk' = [t \in Tasks |-> 0]
    /\ nFail' = [t \in Tasks |-> 0]
    /\ cur' = 0
    /\ file_age' = NoAge
    /\ pc' = "collect"
    /\ UNCHANGED <<callVars, cfgVars, fsVars, run, walkVars, fits_tasks, notices, first>>

\* line 105 raising ValueError: nothing catches it
StartPoolFails ==
    /\ pc = "walk"
    /\ walkTodo = {}
    /\ ~PoolStarts(workers)
    /\ pc' = "crashed"
    /\ UNCHANGED <<callVars, cfgVars, fsVars, run, walkVars, fits_tasks, poolVars, notices, first>>

\* tasks a worker process is executing
Running == {t \in DOMAIN futures : futures[t] \in {"running", "retry"}}

\* a worker process is idle
SlotFree == Cardinality(Running) < workers

\* the pool hands out work items in the order they were submitted
NextQueued(t) ==
    /\ t \in DOMAIN futures
    /\ futures[t] = "queued"
    /\ \A u \in DOMAIN futures : futures[u] = "queued" => t <= u

workerUnchanged ==
    UNCHANGED <<callVars, cfgVars, inDirs, inFiles, outDirs, run, pc, walkVars, fits_tasks,
                collected, nOk, nFail, cur, file_age, notices, first>>

\* lines 19-32: a worker takes the task and reads data and header
ReadSource(t) ==
    /\ pc = "collect"
    /\ NextQueued(t)
    /\ SlotFree
    /\ fits_tasks[t].src \in inFiles
    /\ futures' = [futures EXCEPT ![t] = "running"]
    /\ starts' = [starts EXCEPT ![t] = @ + 1]
    /\ UNCHANGED outFiles
    /\ workerUnchanged

\* lines 19-20 raising: the task fails
ReadSourceFails(t) ==
    /\ pc = "collect"
    /\ NextQueued(t)
    /\ SlotFree
    /\ futures' = [futures EXCEPT ![t] = "failed"]
    /\ starts' = [starts EXCEPT ![t] = @ + 1]
    /\ UNCHANGED outFiles
    /\ workerUnchanged

\* lines 34-41: XISF.write with the FITS keywords returns
WriteXisf(t) ==
    /\ pc = "collect"
    /\ t \in DOMAIN futures
    /\ futures[t] = "running"
    /\ outFiles' = WriteFile(fits_tasks[t].dst, Converted(fits_tasks[t].src, TRUE))
    /\ futures' = [futures EXCEPT ![t] = "ok"]
    /\ UNCHANGED starts
    /\ workerUnchanged

\* texts of exceptions, word by word
SHAPE_TEXT == <<"tuple", "index", "out", "of", "range">>
NO_SPACE == <<"No", "space", "left", "on", "device">>
LIST_INDEX == <<"list", "index", "out", "of", "range">>
INDEX_ERROR == <<"IndexError:">> \o SHAPE_TEXT

\* sub in msg
Contains(msg, sub) ==
    \E i \in 0..(Len(msg) - Len(sub)) : SubSeq(msg, i + 1, i + Len(sub)) = sub

\* a handler that retries after any exception
FallsBackAlways(msg) == TRUE

\* line 44: "tuple index out of range" in msg
FallsBack(msg) == Contains(msg, SHAPE_TEXT)

\* lines 42-52: XISF.write raises; exc is the text of the exception
WriteXisfRaises(t, msg) ==
    /\ pc = "collect"
    /\ t \in DOMAIN futures
    /\ futures[t] = "running"
    /\ futures' = [futures EXCEPT ![t] = IF FallsBack(msg) THEN "retry" ELSE "failed"]
    /\ UNCHANGED <<outFiles, starts>>
    /\ workerUnchanged

\* lines 46-50: XISF.write without metadata returns
WriteFallback(t) ==
    /\ pc = "collect"
    /\ t \in DOMAIN futures
    /\ futures[t] = "retry"
    /\ outFiles' = WriteFile(fits_tasks[t].dst, Converted(fits_tasks[t].src, FALSE))
    /\ futures' = [futures EXCEPT ![t] = "ok_nometa"]
    /\ UNCHANGED starts
    /\ workerUnchanged

\* lines 46-50 raising: the exception leaves the handler, the task fails
WriteFallbackRaises(t) ==
    /\ pc = "collect"
    /\ t \in DOMAIN futures
    /\ futures[t] = "retry"
    /\ futures' = [futures EXCEPT ![t] = "failed"]
    /\ UNCHANGED <<outFiles, starts>>
    /\ workerUnchanged

\* --------------------------------------------------------- result loop
\* a loop that is handed a finished future again
CompletedAgain(t) ==
    /\ t \in DOMAIN futures
    /\ futures[t] \in Finished

\* line 107: as_completed yields a finished future the loop has not had yet
Completed(t) ==
    /\ t \in DOMAIN futures
    /\ futures[t] \in Finished
    /\ t \notin collected

\* a loop that goes on to the deletion whatever the result
ResultReturnsAlways(state) == TRUE

\* line 110: fut.result() returns instead of raising
ResultReturns(state) == state \in Succeeded

\* a test against 0 instead of -1
RetireEnabledZero(d) == d # 0

\* line 115: deletion is not disabled
RetireEnabled(d) == d # -1

\* lines 121-126: the age of the file is looked at
ReadsAge(d) == RetireEnabled(d) /\ d # 0

\* a threshold the age must exceed
ShouldDeleteStrict(d, age) ==
    IF d = 0 THEN TRUE
    ELSE IF age = NoAge THEN FALSE
    ELSE age > d * TicksPerDay

\* lines 116-129: should_delete, for the age read (NoAge: getmtime raised)
ShouldDelete(d, age) ==
    IF d = 0 THEN TRUE
    ELSE IF age = NoAge THEN FALSE
    ELSE age >= d * TicksPerDay

\* ages os.path.getmtime and time.time() can give, NoAge for an OSError
AgeReadings(d) == IF ReadsAge(d) THEN (0..MaxAge) \cup {NoAge} ELSE {NoAge}

\* lines 115-139: what the retirement of src prints, for the age read and for
\* whether os.remove returned
RetireNotices(src, d, age, removed) ==
    IF ~RetireEnabled(d) THEN {}
    ELSE (IF ReadsAge(d) /\ age = NoAge
            THEN {[kind |-> "age_warning", src |-> src]} ELSE {})
         \cup
         (IF ShouldDelete(d, age)
            THEN {[kind |-> IF removed THEN "deleted" ELSE "delete_warning", src |-> src]}
            ELSE IF d > 0 THEN {[kind |-> "too_recent", src |-> src]} ELSE {})

\* a loop whose handler of os.remove warns and raises again: the outer except
\* clause reports the task as failed
CollectSuccessRemoveEscapes(t) ==
    /\ pc = "collect"
    /\ Completed(t)
    /\ ResultReturns(futures[t])
    /\ \E age \in AgeReadings(delete_older_than_days) :
       \E removed \in IF RetireEnabled(delete_older_than_days)
                         /\ ShouldDelete(delete_older_than_days, age)
                      THEN BOOLEAN ELSE {FALSE} :
          LET src == fits_tasks[t].src
              tried == RetireEnabled(delete_older_than_days)
                       /\ ShouldDelete(delete_older_than_days, age)
          IN  /\ nOk' = [nOk EXCEPT ![t] = @ + 1]
              /\ nFail' = [nFail EXCEPT ![t] = IF tried /\ ~removed THEN @ + 1 ELSE @]
              /\ file_age' = age
              /\ inFiles' = IF removed THEN inFiles \ {src} ELSE inFiles
              /\ notices' = notices \cup
                     RetireNotices(src, delete_older_than_days, age, removed)
    /\ collected' = collected \cup {t}
    /\ cur' = t
    /\ UNCHANGED <<callVars, cfgVars, inDirs, outDirs, outFiles, run, pc, walkVars, fits_tasks,
                   futures, starts, first>>

\* lines 110-139: the future of task t returned; report, then retire the source
CollectSuccess(t) ==
    /\ pc = "collect"
    /\ Completed(t)
    /\ ResultReturns(futures[t])
    /\ \E age \in AgeReadings(delete_older_than_days) :
       \E removed \in IF RetireEnabled(delete_older_than_days)
                         /\ ShouldDelete(delete_older_than_days, age)
                      THEN BOOLEAN ELSE {FALSE} :
          LET src == fits_tasks[t].src
          IN  /\ nOk' = [nOk EXCEPT ![t] = @ + 1]
              /\ file_age' = age
              /\ inFiles' = IF removed THEN inFiles \ {src} ELSE inFiles
              /\ notices' = notices \cup
                     RetireNotices(src, delete_older_than_days, age, removed)
    /\ collected' = collected \cup {t}
    /\ cur' = t
    /\ UNCHANGED <<callVars, cfgVars, inDirs, outDirs, outFiles, run, pc, walkVars, fits_tasks,
                   futures, starts, nFail, first>>

\* a loop without the except clause: the exception of the task ends main()
CollectFailureAborts(t) ==
    /\ pc = "collect"
    /\ Completed(t)
    /\ ~ResultReturns(futures[t])
    /\ pc' = "crashed"
    /\ UNCHANGED <<callVars, cfgVars, fsVars, run, walkVars, fits_tasks, poolVars, notices, first>>

\* lines 141-142: fut.result() raised; report the failure
CollectFailure(t) ==
    /\ pc = "collect"
    /\ Completed(t)
    /\ ~ResultReturns(futures[t])
    /\ nFail' = [nFail EXCEPT ![t] = @ + 1]
    /\ collected' = collected \cup {t}
    /\ cur' = t
    /\ file_age' = NoAge
    /\ UNCHANGED <<callVars, cfgVars, fsVars, run, pc, walkVars, fits_tasks, futures, starts,
                   nOk, notices, first>>

\* a loop that stops at the first result
LoopDoneEarly == collected # {} \/ DOMAIN futures = {}

\* line 107: as_completed has yielded every future
LoopDone == collected = DOMAIN futures

\* lines 105-142: the loop ends, the pool shuts down, main() returns
Finish ==
    /\ pc = "collect"
    /\ LoopDone
    /\ pc' = "done"
    /\ UNCHANGED <<callVars, cfgVars, fsVars, run, walkVars, fits_tasks, poolVars, notices, first>>

\* the program returned and is run again with the same configuration, which
\* has skip_existing on
RunAgain ==
    /\ run = 1
    /\ pc = "done"
    /\ skip_existing
    /\ run' = 2
    /\ first' = outFiles
    /\ pc' = "start"
    /\ walkTodo' = {}
    /\ root' = NoDir
    /\ files' = {}
    /\ processed' = {}
    /\ fits_tasks' = <<>>
    /\ futures' = <<>>
    /\ collected' = {}
    /\ starts' = <<>>
    /\ nOk' = <<>>
    /\ nFail' = <<>>
    /\ cur' = 0
    /\ file_age' = NoAge
    /\ notices' = {}
    /\ UNCHANGED <<callVars, cfgVars, fsVars>>

\* str(e) of the exceptions XISF.write raises
Messages == {SHAPE_TEXT, INDEX_ERROR, NO_SPACE, LIST_INDEX}

Next ==
    \/ ConfigError
    \/ MakeOutputDir
    \/ MakeOutputDirFails
    \/ \E d \in Dirs : WalkDir(d)
    \/ \E d \in Dirs : WalkDirFails(d)
    \/ \E fn \in Names : SkipFile(fn)
    \/ \E fn \in Names : EnqueueFile(fn)
    \/ \E fn \in Names : CopyFile(fn)
    \/ \E fn \in Names : CopyFileFails(fn)
    \/ StartPool
    \/ StartPoolFails
    \/ \E t \in 1..MaxFiles : ReadSource(t)
    \/ \E t \in 1..MaxFiles : ReadSourceFails(t)
    \/ \E t \in 1..MaxFiles : WriteXisf(t)
    \/ \E t \in 1..MaxFiles, msg \in Messages : WriteXisfRaises(t, msg)
    \/ \E t \in 1..MaxFiles : WriteFallback(t)
    \/ \E t \in 1..MaxFiles : WriteFallbackRaises(t)
    \/ \E t \in 1..MaxFiles : CollectSuccess(t)
    \/ \E t \in 1..MaxFiles : CollectFailure(t)
    \/ Finish
    \/ RunAgain

Spec == Init /\ [][Next]_vars

\* a step of a worker process
WorkerStep ==
    \E t \in 1..MaxFiles :
        \/ ReadSource(t)
        \/ ReadSourceFails(t)
        \/ WriteXisf(t)
        \/ \E msg \in Messages : WriteXisfRaises(t, msg)
        \/ WriteFallback(t)
        \/ WriteFallbackRaises(t)

\* a step of the result loop of main()
LoopStep ==
    \/ \E t \in 1..MaxFiles : CollectSuccess(t) \/ CollectFailure(t)
    \/ Finish

\* every call of a worker returns or raises, and main() keeps running
FairSpec == Spec /\ WF_vars(WorkerStep) /\ WF_vars(LoopStep)

\* ------------------------------------------- one call of the conversion
\* convert_fits_to_xisf looked at on its own: the shape of the data it reads,
\* every call of XISF.write it makes and every exception raised in it.

\* the shapes fits.getdata can return
Shapes == UNION {[1..n -> 1..MaxLen] : n \in 1..MaxNdim}

\* a new axis put in front: data[np.newaxis, :, :]
ReshapeLeading(sh) == IF Len(sh) = 2 THEN <<1>> \o sh ELSE sh

\* lines 23-24: data[:, :, np.newaxis] for 2-D data
Reshape(sh) == IF Len(sh) = 2 THEN sh \o <<1>> ELSE sh

ConvertInit ==
    /\ input_is_dir = TRUE
    /\ skip_existing = TRUE
    /\ delete_older_than_days = -1
    /\ workers = 1
    /\ inDirs = {"."}
    /\ inFiles = {[dir |-> ".", name |-> A_FITS]}
    /\ outDirs = {"."}
    /\ outFiles = <<>>
    /\ run = 1
    /\ pc = "call"
    /\ walkTodo = {}
    /\ root = NoDir
    /\ files = {}
    /\ fits_tasks = <<>>
    /\ futures = <<>>
    /\ collected = {}
    /\ starts = <<>>
    /\ nOk = <<>>
    /\ nFail = <<>>
    /\ cur = 0
    /\ file_age = NoAge
    /\ notices = {}
    /\ processed = {}
    /\ first = NoFirst
    /\ c_pc = "read"
    /\ shape \in Shapes
    /\ data = <<>>
    /\ written = <<>>
    /\ raised = <<>>

\* lines 19-32: data and header are read, 2-D data gets its axis
ConvRead ==
    /\ c_pc = "read"
    /\ data' = Reshape(shape)
    /\ c_pc' = "write"
    /\ UNCHANGED <<mainVars, shape, written, raised>>

\* lines 19-20 raising: the call raises
ConvReadRaises(msg) ==
    /\ c_pc = "read"
    /\ raised' = Append(raised, msg)
    /\ c_pc' = "raised"
    /\ UNCHANGED <<mainVars, shape, data, written>>

\* lines 34-41: XISF.write with image_metadata returns, and so does the call
ConvWrite ==
    /\ c_pc = "write"
    /\ written' = Append(written, [data |-> data, meta |-> TRUE])
    /\ c_pc' = "returned"
    /\ UNCHANGED <<mainVars, shape, data, raised>>

\* lines 42-52: XISF.write with image_metadata raises msg
ConvWriteRaises(msg) ==
    /\ c_pc = "write"
    /\ written' = Append(written, [data |-> data, meta |-> TRUE])
    /\ raised' = Append(raised, msg)
    /\ c_pc' = IF FallsBack(msg) THEN "fallback" ELSE "raised"
    /\ UNCHANGED <<mainVars, shape, data>>

\* lines 46-50: XISF.write without metadata returns, and so does the call
ConvFallback ==
    /\ c_pc = "fallback"
    /\ written' = Append(written, [data |-> data, meta |-> FALSE])
    /\ c_pc' = "returned"
    /\ UNCHANGED <<mainVars, shape, data, raised>>

\* lines 46-50 raising msg inside the handler: the call raises
ConvFallbackRaises(msg) ==
    /\ c_pc = "fallback"
    /\ written' = Append(written, [data |-> data, meta |-> FALSE])
    /\ raised' = Append(raised, msg)
    /\ c_pc' = "raised"
    /\ UNCHANGED <<mainVars, shape, data>>

ConvertNext ==
    \/ ConvRead
    \/ \E msg \in Messages : ConvReadRaises(msg)
    \/ ConvWrite
    \/ \E msg \in Messages : ConvWriteRaises(msg)
    \/ ConvFallback
    \/ \E msg \in Messages : ConvFallbackRaises(msg)

ConvertSpec == ConvertInit /\ [][ConvertNext]_vars

\* ------------------------------------------------------------ properties
Src(t) == fits_tasks[t].src
Noticed(kind, src) == [kind |-> kind, src |-> src] \in notices
CollectedOk(t) == t \in collected /\ futures[t] \in Succeeded
CollectedFailed(t) == t \in collected /\ futures[t] = "failed"

\* C1: a step removes a source file only when it is the result loop handling
\* the successful result of the task of that very file; whatever the value
\* of delete_older_than_days, no other file and no file of a failed task goes
C1_DeleteOnlyAfterOwnSuccess ==
    [][\A f \in inFiles :
          f \notin inFiles' =>
              \E t \in DOMAIN futures :
                  /\ Src(t) = f
                  /\ futures[t] \in Succeeded
                  /\ t \notin collected
                  /\ t \in collected']_vars

\* C1 witness: a run that deletes on success has ended; one task failed and
\* kept its source, the source of another, successful task is gone
C1_Witness ==
    /\ pc = "done"
    /\ delete_older_than_days = 0
    /\ \E t, u \in DOMAIN futures :
          /\ CollectedFailed(t)
          /\ Src(t) \in inFiles
          /\ CollectedOk(u)
          /\ Src(u) \notin inFiles

\* C2: the source of a task that succeeded only through the write without
\* metadata is never deleted
C2_FallbackNeverDeletes ==
    \A t \in DOMAIN futures :
        futures[t] = "ok_nometa" => Src(t) \in inFiles

\* C3 as stated: the second run with skip_existing enqueues nothing and leaves
\* the output tree as the first run left it
C3_SecondRunIsNoOp ==
    (run = 2 /\ pc = "done") => (fits_tasks = <<>> /\ outFiles = first)

\* C3 amended: the second run with skip_existing enqueues no file whose
\* destination the first run left in the output tree, every file the first run
\* left is still there, and none of them is rewritten by a conversion of the
\* second run (only the pass-through copies are made again)
C3_SecondRunSkipsExisting ==
    run = 2 =>
        /\ \A t \in Tasks : fits_tasks[t].dst \notin DOMAIN first
        /\ \A q \in DOMAIN first :
              /\ q \in DOMAIN outFiles
              /\ outFiles[q] # first[q] => outFiles[q].kind = "copy"

\* C3 witness: the second run has ended; it skipped a file the first run had
\* converted and enqueued nothing
C3_Witness ==
    /\ run = 2
    /\ pc = "done"
    /\ fits_tasks = <<>>
    /\ outFiles = first
    /\ \E f \in inFiles :
          /\ Noticed("skip", f)
          /\ first[Dst(f)].kind = "xisf"

\* C4: no two tasks of a run have the same destination
C4_DestinationsDistinct ==
    \A t, u \in Tasks : t # u => fits_tasks[t].dst # fits_tasks[u].dst

\* C5: in the result loop a failed task ends nothing and touches no other
\* task: main() stays in the loop until it returns, the step that fails a task
\* leaves every other future as it was, and when main() returns every
\* submitted task was executed and reported with the result of its own future
C5_FailureIsolation ==
    [][pc = "collect" =>
          /\ pc' \in {"collect", "done"}
          /\ \A t \in DOMAIN futures :
                (futures[t] # "failed" /\ futures'[t] = "failed") =>
                    \A u \in (DOMAIN futures) \ {t} : futures'[u] = futures[u]
          /\ pc' = "done" =>
                \A t \in Tasks :
                    /\ starts[t] = 1
                    /\ futures[t] \in Succeeded => (nOk[t] = 1 /\ nFail[t] = 0)
                    /\ futures[t] = "failed" => (nOk[t] = 0 /\ nFail[t] = 1)]_vars

\* C5 witness: with one worker the first task failed, the second task was run
\* after it and succeeded, and both were reported
C5_Witness ==
    /\ pc = "done"
    /\ workers = 1
    /\ Len(fits_tasks) = 2
    /\ CollectedFailed(1) /\ nFail[1] = 1
    /\ CollectedOk(2) /\ nOk[2] = 1

\* C6: every task of fits_tasks has one future once the pool runs; a task is
\* started by a worker at most once and never again after it finished; it gets
\* at most one report, a success report only for a result and a failure report
\* only for an exception; when main() returns each task was started once and
\* has exactly one report
C6_ExactlyOneOutcome ==
    /\ pc \in {"collect", "done"} => DOMAIN futures = Tasks
    /\ \A t \in DOMAIN futures :
          /\ starts[t] = (IF futures[t] = "queued" THEN 0 ELSE 1)
          /\ nOk[t] + nFail[t] = (IF t \in collected THEN 1 ELSE 0)
          /\ nOk[t] = 1 => futures[t] \in Succeeded
          /\ nFail[t] = 1 => futures[t] = "failed"
          /\ t \in collected => futures[t] \in Finished
    /\ pc = "done" => collected = Tasks

\* C6 witness: a run of two tasks has ended with one success report and one
\* failure report
C6_Witness ==
    /\ pc = "done"
    /\ Len(fits_tasks) = 2
    /\ \E t, u \in Tasks : nOk[t] = 1 /\ nFail[u] = 1

\* C7: main() returns only when every submitted task has finished and had its
\* result handled; and when every worker call returns or raises, a run that
\* has submitted its tasks returns
C7_TerminatesAfterAllOutcomes ==
    /\ [](pc = "done" =>
            /\ DOMAIN futures = Tasks
            /\ \A t \in Tasks : futures[t] \in Finished /\ t \in collected)
    /\ (pc = "collect") ~> (pc = "done")

\* C7 witness: a run with two tasks and one worker has returned
C7_Witness ==
    /\ pc = "done"
    /\ workers = 1
    /\ Len(fits_tasks) = 2
    /\ collected = {1, 2}

\* the age read in the loop's last iteration reaches the threshold of
\* delete_older_than_days
OldEnough ==
    /\ file_age # NoAge
    /\ file_age >= delete_older_than_days * TicksPerDay

\* the source of task t was removed and reported so
Retired(t) ==
    /\ Src(t) \notin inFiles
    /\ Noticed("deleted", Src(t))
    /\ ~Noticed("delete_warning", Src(t))

\* os.remove was called for the source of task t and raised
RemoveFailed(t) ==
    /\ Src(t) \in inFiles
    /\ Noticed("delete_warning", Src(t))
    /\ ~Noticed("deleted", Src(t))

\* the source of task t was left alone
LeftInPlace(t) ==
    /\ Src(t) \in inFiles
    /\ ~Noticed("deleted", Src(t))
    /\ ~Noticed("delete_warning", Src(t))

\* C8 as stated: with a threshold N > 0 the source of the successful task the
\* loop has just handled is gone if and only if the age read reaches N,
\* otherwise it is in place with a "too recent" notice; with 0 it is gone
C8_DeletedIffOldEnough ==
    (cur # 0 /\ CollectedOk(cur)) =>
        /\ delete_older_than_days > 0 =>
              /\ Src(cur) \notin inFiles <=> OldEnough
              /\ Src(cur) \in inFiles => Noticed("too_recent", Src(cur))
        /\ delete_older_than_days = 0 => Src(cur) \notin inFiles

\* C8 amended: with a threshold N > 0 os.remove is called for the source of a
\* successful task if and only if the age read when the result is handled
\* reaches N, and the source is gone unless that call fails (then a warning is
\* printed and the file stays); below N, or when the age cannot be read, the
\* source is left alone with a "too recent" notice; with 0 os.remove is called
\* whatever the age, which is not read
C8_RemoveCalledIffOldEnough ==
    (cur # 0 /\ CollectedOk(cur)) =>
        /\ delete_older_than_days > 0 =>
              IF OldEnough
              THEN (Retired(cur) \/ RemoveFailed(cur)) /\ ~Noticed("too_recent", Src(cur))
              ELSE LeftInPlace(cur) /\ Noticed("too_recent", Src(cur))
        /\ delete_older_than_days = 0 =>
              /\ file_age = NoAge
              /\ Retired(cur) \/ RemoveFailed(cur)

\* C8 witness: with a threshold of one day, the source just handled was read
\* at exactly one day and removed, after the source of another successful task
\* was kept as too recent
C8_Witness ==
    /\ delete_older_than_days = 1
    /\ cur # 0 /\ CollectedOk(cur)
    /\ file_age = TicksPerDay
    /\ Retired(cur)
    /\ \E t \in DOMAIN futures :
          CollectedOk(t) /\ LeftInPlace(t) /\ Noticed("too_recent", Src(t))

\* C9: with delete_older_than_days = -1 no step removes a file of the input
\* tree and no deletion is reported
C9_DisabledNeverDeletes ==
    [][delete_older_than_days = -1 =>
          /\ inFiles' = inFiles
          /\ \A n \in notices' : n.kind \notin {"deleted", "delete_warning"}]_vars

\* C9 witness: with -1 a run has ended with one task succeeded and one failed,
\* both sources in place
C9_Witness ==
    /\ delete_older_than_days = -1
    /\ pc = "done"
    /\ \E t, u \in DOMAIN futures :
          /\ CollectedOk(t) /\ Src(t) \in inFiles
          /\ CollectedFailed(u) /\ Src(u) \in inFiles

\* C10: the mirror of a directory exists from the moment os.walk has yielded
\* it: while its files are looped over, for every file copied or enqueued, and,
\* once the walk is over, for every directory of the input tree, with or
\* without files in it
C10_TreeMirrored ==
    /\ pc = "files" => root \in outDirs
    /\ \A f \in processed : f.dir \in outDirs
    /\ \A t \in Tasks : fits_tasks[t].dst.dir \in outDirs
    /\ \A q \in DOMAIN outFiles : q.dir \in outDirs
    /\ pc \in {"walk", "files"} => (inDirs \ walkTodo) \subseteq outDirs
    /\ pc \in {"collect", "done"} => inDirs \subseteq outDirs

\* C10 witness: the first run has ended; the subdirectory held no file and
\* its mirror exists, next to a file enqueued from input_dir
C10_Witness ==
    /\ run = 1
    /\ pc = "done"
    /\ "sub" \in inDirs
    /\ \A f \in processed : f.dir = "."
    /\ processed # {}
    /\ "sub" \in outDirs

\* C11: once the walk of input_dir has started, no step ends main() with an
\* uncaught exception: a failing makedirs, copy2 or pool start-up does not
\* stop the run
C11_NoFatalErrorAfterStart ==
    [][(pc \in {"walk", "files", "collect"}) => (pc' # "crashed")]_vars

\* C12: when input_dir is not a directory the only step main() takes is the
\* exit with status 1, and it leaves both trees as they were, makes no task
\* and submits nothing
C12_BadInputDirExits ==
    [][~input_is_dir =>
          /\ pc = "start"
          /\ pc' = "exit1"
          /\ UNCHANGED <<inDirs, inFiles, outDirs, outFiles>>
          /\ fits_tasks' = <<>>
          /\ futures' = <<>>]_vars

\* C12 witness: main() has exited on a bad input_dir; the files are where
\* they were and output_dir was not made
C12_Witness ==
    /\ pc = "exit1"
    /\ ~input_is_dir
    /\ inFiles # {}
    /\ outDirs = {}
    /\ outFiles = <<>>

\* C13: a source whose os.remove failed has its one success report and no
\* failure report, the loop is still running or has ended normally, and it
\* ends only after it has handled every other task
C13_DeleteFailureIsWarning ==
    /\ \A t \in DOMAIN futures :
          Noticed("delete_warning", Src(t)) =>
              /\ t \in collected
              /\ futures[t] \in Succeeded
              /\ nOk[t] = 1
              /\ nFail[t] = 0
    /\ (\E n \in notices : n.kind = "delete_warning") =>
          /\ pc \in {"collect", "done"}
          /\ pc = "done" => collected = DOMAIN futures

\* C13 witness: the removal of one source failed, and the loop went on to
\* the result of another task and deleted its source
C13_Witness ==
    /\ pc = "done"
    /\ \E t, u \in DOMAIN futures :
          /\ t # u
          /\ Noticed("delete_warning", Src(t))
          /\ Src(t) \in inFiles
          /\ cur = u
          /\ Noticed("deleted", Src(u))
          /\ Src(u) \notin inFiles

\* the texts that report the shape failure of the metadata
ShapeFailure(msg) == msg \in {SHAPE_TEXT, INDEX_ERROR}

\* C14: one call of convert_fits_to_xisf writes at most twice.  It returns
\* after one write with metadata that did not raise, or after a first write
\* that raised the shape failure and one write without metadata that did not
\* raise.  It raises when the read raised (no write), when the first write
\* raised anything else (no second write), or when the write without
\* metadata raised too (no third write)
C14_FallbackPolicy ==
    /\ Len(written) <= 2
    /\ c_pc = "fallback" =>
          /\ Len(written) = 1
          /\ Len(raised) = 1
          /\ ShapeFailure(raised[1])
    /\ c_pc = "returned" =>
          \/ /\ raised = <<>>
             /\ Len(written) = 1
             /\ written[1].meta
          \/ /\ Len(raised) = 1
             /\ ShapeFailure(raised[1])
             /\ Len(written) = 2
             /\ written[1].meta
             /\ ~written[2].meta
    /\ c_pc = "raised" =>
          \/ /\ Len(written) = 0
             /\ Len(raised) = 1
          \/ /\ Len(written) = 1
             /\ Len(raised) = 1
             /\ ~ShapeFailure(raised[1])
          \/ /\ Len(written) = 2
             /\ Len(raised) = 2
             /\ ShapeFailure(raised[1])
             /\ ~written[2].meta

\* C14 witness: the first write raised the IndexError, the write without
\* metadata was made once and the call returned
C14_Witness ==
    /\ c_pc = "returned"
    /\ raised = <<INDEX_ERROR>>
    /\ Len(written) = 2
    /\ ~written[2].meta

\* C17 as claimed: every array given to XISF.write has three axes; 2-D data
\* has one axis of length 1 put after its two, 3-D data keeps its shape
C17_AlwaysThreeAxes ==
    \A i \in 1..Len(written) :
        /\ Len(written[i].data) = 3
        /\ Len(shape) = 2 => written[i].data = shape \o <<1>>
        /\ Len(shape) = 3 => written[i].data = shape

\* C17 amended: the write with metadata and the write without are given the
\* same array; for 2-D data it has the two axes of the data and then one of
\* length 1, for data of any other number of axes it has the shape of the
\* data, so it has three axes when the data has two or three
C17_TwoAxesGetThird ==
    \A i \in 1..Len(written) :
        /\ written[i].data = written[1].data
        /\ Len(shape) = 2 =>
              /\ Len(written[i].data) = 3
              /\ written[i].data[1] = shape[1]
              /\ written[i].data[2] = shape[2]
              /\ written[i].data[3] = 1
        /\ Len(shape) # 2 => written[i].data = shape
        /\ Len(shape) \in {2, 3} => Len(written[i].data) = 3

\* C17 witness: 2-D data of 2 by 1 was written twice, with and without
\* metadata, both times as 2 by 1 by 1
C17_Witness ==
    /\ shape = <<2, 1>>
    /\ Len(written) = 2
    /\ written[1].data = <<2, 1, 1>>
    /\ written[2].data = <<2, 1, 1>>
    /\ ~written[2].meta

\* C15: before the pool is started no future exists and no worker has run;
\* the step that starts the pool finds the walk over, with every directory
\* of the input mirrored, every file looked at and every pass-through file
\* copied; from then on no step makes a directory, copies a file or skips one
C15_EnumerationBeforeDispatch ==
    [][/\ pc \in {"start", "walk", "files"} =>
             /\ futures = <<>>
             /\ starts = <<>>
       /\ (pc # "collect" /\ pc' = "collect") =>
             /\ walkTodo = {}
             /\ files = {}
             /\ inDirs \subseteq outDirs
             /\ inFiles \subseteq processed
             /\ \A f \in inFiles :
                   f.name = A_XISF => Exists(f) /\ outFiles[f] = Copied(f)
       /\ pc = "collect" =>
             /\ outDirs' = outDirs
             /\ processed' = processed
             /\ \A q \in DOMAIN outFiles' :
                   outFiles'[q].kind = "copy" => Exists(q) /\ outFiles[q] = outFiles'[q]
             /\ \A n \in notices' \ notices : n.kind # "skip"]_vars

\* C15 witness: a worker is converting the file of the subdirectory; the
\* mirror of the subdirectory and the copy of a.xisf are there already
C15_Witness ==
    /\ pc = "collect"
    /\ Running # {}
    /\ "sub" \in outDirs
    /\ \E f \in inFiles : Exists(f) /\ outFiles[f] = Copied(f)

\* the names of the model that end in ".fits" in some casing
ConvertibleNames == {A_FITS, A_FITS_UPPER}

\* the step appends the task of file f to fits_tasks
Enqueues(f) ==
    fits_tasks' = Append(fits_tasks, [src |-> f, dst |-> Dst(f)])

\* C16: the step of the walk that handles file f makes it a task exactly
\* when its name ends in ".fits" in some casing and not (skip_existing and
\* its destination exists); a FITS file that is not made a task is reported
\* as skipped and nothing is written; any other file is copied to the same
\* place of the output tree and fits_tasks stays as it is; and no other step
\* of a run adds a task
C16_EnqueueRule ==
    [][/\ \A f \in processed' \ processed :
             /\ Enqueues(f) <=>
                   /\ f.name \in ConvertibleNames
                   /\ ~(skip_existing /\ Dst(f) \in DOMAIN outFiles)
             /\ ~Enqueues(f) => fits_tasks' = fits_tasks
             /\ (f.name \in ConvertibleNames /\ ~Enqueues(f)) =>
                   /\ outFiles' = outFiles
                   /\ Noticed("skip", f)'
             /\ f.name \notin ConvertibleNames =>
                   /\ DOMAIN outFiles' = DOMAIN outFiles \cup {f}
                   /\ outFiles'[f] = Copied(f)
                   /\ \A q \in DOMAIN outFiles \ {f} : outFiles'[q] = outFiles[q]
       /\ (run' = run /\ processed' = processed) => fits_tasks' = fits_tasks]_vars

\* C16 witness: a.xisf was copied, then a.FITS was skipped because of it,
\* and the run ended without a task
C16_Witness ==
    /\ pc = "done"
    /\ run = 1
    /\ fits_tasks = <<>>
    /\ Noticed("skip", [dir |-> ".", name |-> A_FITS_UPPER])
    /\ Exists([dir |-> ".", name |-> A_XISF])
    /\ outFiles[[dir |-> ".", name |-> A_XISF]] = Copied([dir |-> ".", name |-> A_XISF])

\* C18: a step removes a source file only when delete_older_than_days is 0,
\* or is positive and the age read is at least that many days; in
\* particular not when it is negative
C18_NoDeletionWhenNegative ==
    [][inFiles' # inFiles =>
          \/ delete_older_than_days = 0
          \/ /\ delete_older_than_days > 0
             /\ file_age' # NoAge
             /\ file_age' >= delete_older_than_days * TicksPerDay]_vars

\* C19: no task has for destination the place of a pass-through copy of the
\* same run, and no FITS file is skipped because of a file this run copied
C19_OneSourcePerDestination ==
    [][/\ \A t \in 1..Len(fits_tasks') : \A f \in processed' :
             f.name \notin ConvertibleNames => fits_tasks'[t].dst # f
       /\ \A n \in notices' \ notices :
             n.kind = "skip" =>
                 \A f \in processed : f.name \notin ConvertibleNames => Dst(n.src) # f]_vars


====
